---- MODULE Spec2Model ----
(***************************************************************************)
(* A model of advanced-vector/vector.h: RawMemory<T> (a block of raw      *)
(* slots) and Vector<T> (a prefix of live objects in such a block).        *)
(*                                                                         *)
(* The heap is a map from block addresses to blocks; a block is a map from *)
(* slot indices 0..n-1 to slots; a slot records whether an object lives in *)
(* it and the object's value.  Every member function of Vector is one      *)
(* action; the element operations of T that may throw are counted while    *)
(* the function runs, and the action's input failAt says which of them     *)
(* throws (0: none).                                                       *)
(***************************************************************************)
EXTENDS Naturals, Integers, Sequences, FiniteSets, TLC

VARIABLES
    T,      \* the element type's traits (the template parameter)
    vec,    \* the Vector objects: vec[v] = [alive, data_, size_]
    heap,   \* the allocated blocks, by address
    last,   \* the last member function called and its outcome
    hist,   \* for a program that only pushes and pops: the calls made so far
    mem     \* the RawMemory objects a program uses on their own:
            \* mem[m] = [alive, buffer_, capacity_]

vars == <<T, vec, heap, last, hist, mem>>

----------------------------------------------------------------------------
(* Bounds of the model *)

\* the slots a program with one Vector may own between two calls
MaxCap == 4
\* the slots a program with two Vectors may own between two calls
MaxSlots == 3
\* the PushBack calls a program that only pushes and pops makes
MaxPushes == 5
\* the values of T are 0..MaxVal; 0 is the value-initialised and the
\* moved-from value
MaxVal == 1
\* the element operation that throws is among the first MaxFail ones
MaxFail == 2
\* the capacity a program gives a RawMemory it constructs on its own
MaxRawCap == 2
\* the slots such a program may have allocated between two calls
MaxRawSlots == 4

Val == 0..MaxVal
Vecs == {"a", "b"}
Mems == {"p", "q", "r"}
FailPoints == 0..MaxFail


\* T's traits: is_nothrow_move_constructible_v<T> || !is_copy_constructible_v<T>,
\* and whether T's move operations leave the source emptied (value 0)
StringLike == [nothrowMove |-> TRUE, moveEmpties |-> TRUE]
CopyOnly == [nothrowMove |-> FALSE, moveEmpties |-> FALSE]
\* a copy-constructible T whose move constructor may throw and leaves the
\* source emptied
ThrowingMove == [nothrowMove |-> FALSE, moveEmpties |-> TRUE]
Types == {StringLike, CopyOnly}

----------------------------------------------------------------------------
(* Slots, blocks and the heap *)

nullptr == 0

Raw == [live |-> FALSE, val |-> 0]

Obj(x) == [live |-> TRUE, val |-> x]

\* the address operator new returns: the lowest free one
FreshAddress(h) ==
    CHOOSE b \in 1..(Cardinality(DOMAIN h) + 1) :
        /\ b \notin DOMAIN h
        /\ \A a \in 1..(b - 1) : a \in DOMAIN h

\* The context a member function runs in: the heap, the number of
\* element operations executed so far that may throw, the one that throws,
\* whether an exception is propagating, and what went wrong on the way.
Ctx(h, failAt) ==
    [heap |-> h, n |-> 0, failAt |-> failAt, threw |-> FALSE,
     faults |-> {}]

Fault(c, f) == [c EXCEPT !.faults = @ \cup {f}]

InBlock(c, b, i) == b \in DOMAIN c.heap /\ i \in DOMAIN c.heap[b]

IsLive(c, b, i) == InBlock(c, b, i) /\ c.heap[b][i].live

\* RawMemory::Allocate: n == 0 gives nullptr
Allocate(c, n) == IF n = 0 THEN nullptr ELSE FreshAddress(c.heap)

\* the heap after Allocate(c, n) returned b
Allocated(c, b, n) ==
    IF b = nullptr THEN c
    ELSE [c EXCEPT
            !.heap = [a \in DOMAIN c.heap \cup {b} |->
                        IF a = b THEN [i \in 0..(n - 1) |-> Raw] ELSE c.heap[a]]]

\* Deallocate with the release forgotten
Deallocate_Forgotten(c, b) == c

\* RawMemory::Deallocate: operator delete; of nullptr it does nothing.
\* Objects still alive in the block are lost without their destructor.
Deallocate(c, b) ==
    IF b = nullptr THEN c
    ELSE IF b \notin DOMAIN c.heap THEN Fault(c, "double_free")
    ELSE LET c1 == IF \E i \in DOMAIN c.heap[b] : c.heap[b][i].live
                   THEN Fault(c, "leak") ELSE c
         IN  [c1 EXCEPT !.heap = [a \in DOMAIN c.heap \ {b} |-> c.heap[a]]]

----------------------------------------------------------------------------
(* The element operations of T *)

\* the next element operation that may throw: does it?
Throwing(c) == c.n + 1 = c.failAt

Threw(c) == [c EXCEPT !.n = @ + 1, !.threw = TRUE]

\* an object of value x is written to slot i of block b
Put(c, b, i, x) == [c EXCEPT !.heap[b][i] = Obj(x)]

\* new (p) T(args...): constructs an object of value x in a raw slot
ConstructAt(c, b, i, x) ==
    IF c.threw THEN c
    ELSE IF Throwing(c) THEN Threw(c)
    ELSE IF ~InBlock(c, b, i) THEN Fault(c, "out_of_block")
    ELSE LET c1 == IF c.heap[b][i].live THEN Fault(c, "construct_on_live") ELSE c
         IN  [Put(c1, b, i, x) EXCEPT !.n = @ + 1]

\* T's copy constructor: new (dst) T(src)
CopyConstructAt(c, db, di, sb, si) ==
    IF c.threw THEN c
    ELSE IF Throwing(c) THEN Threw(c)
    ELSE IF ~InBlock(c, db, di) \/ ~InBlock(c, sb, si) THEN Fault(c, "out_of_block")
    ELSE LET c1 == IF c.heap[db][di].live THEN Fault(c, "construct_on_live") ELSE c
             c2 == IF ~c.heap[sb][si].live THEN Fault(c1, "read_of_dead") ELSE c1
         IN  [Put(c2, db, di, c.heap[sb][si].val) EXCEPT !.n = @ + 1]

\* the source of a move: emptied when T's move operations empty it
MovedFrom(c, sb, si) ==
    IF T.moveEmpties THEN [c EXCEPT !.heap[sb][si].val = 0] ELSE c

\* a move construction that constructs nothing
MoveConstructAt_Skipped(c, db, di, sb, si) == c

\* T's move constructor: new (dst) T(std::move(src)); it may throw unless
\* T is nothrow-move-constructible
MoveConstructAt(c, db, di, sb, si) ==
    IF c.threw THEN c
    ELSE IF ~T.nothrowMove /\ Throwing(c) THEN Threw(c)
    ELSE IF ~InBlock(c, db, di) \/ ~InBlock(c, sb, si) THEN Fault(c, "out_of_block")
    ELSE LET c1 == IF c.heap[db][di].live THEN Fault(c, "construct_on_live") ELSE c
             c2 == IF ~c.heap[sb][si].live THEN Fault(c1, "read_of_dead") ELSE c1
             c3 == MovedFrom(Put(c2, db, di, c.heap[sb][si].val), sb, si)
         IN  [c3 EXCEPT !.n = IF T.nothrowMove THEN @ ELSE @ + 1]

\* T's copy assignment: *dst = *src; both must be live objects
CopyAssign(c, db, di, sb, si) ==
    IF c.threw THEN c
    ELSE IF Throwing(c) THEN Threw(c)
    ELSE IF ~InBlock(c, db, di) \/ ~InBlock(c, sb, si) THEN Fault(c, "out_of_block")
    ELSE LET c1 == IF ~c.heap[db][di].live THEN Fault(c, "assign_to_dead") ELSE c
             c2 == IF ~c.heap[sb][si].live THEN Fault(c1, "read_of_dead") ELSE c1
         IN  [c2 EXCEPT !.heap[db][di].val = c.heap[sb][si].val, !.n = @ + 1]

\* T's move assignment: *dst = std::move(*src)
MoveAssign(c, db, di, sb, si) ==
    IF c.threw THEN c
    ELSE IF ~T.nothrowMove /\ Throwing(c) THEN Threw(c)
    ELSE IF ~InBlock(c, db, di) \/ ~InBlock(c, sb, si) THEN Fault(c, "out_of_block")
    ELSE LET c1 == IF ~c.heap[db][di].live THEN Fault(c, "assign_to_dead") ELSE c
             c2 == IF ~c.heap[sb][si].live THEN Fault(c1, "read_of_dead") ELSE c1
             c3 == MovedFrom([c2 EXCEPT !.heap[db][di].val = c.heap[sb][si].val],
                             sb, si)
         IN  [c3 EXCEPT !.n = IF T.nothrowMove THEN @ ELSE @ + 1]

\* T's destructor on slot i of block b (std::destroy_at); it never throws
\* and runs during unwinding too
DestroyAt(c, b, i) ==
    IF ~InBlock(c, b, i) THEN Fault(c, "out_of_block")
    ELSE IF ~c.heap[b][i].live THEN Fault(c, "destroy_of_dead")
    ELSE [c EXCEPT !.heap[b][i] = Raw]

\* destroy_n stopping one element early
RECURSIVE destroy_n_Short(_, _, _, _)
destroy_n_Short(c, b, first, n) ==
    IF n <= 1 THEN c
    ELSE destroy_n_Short(DestroyAt(c, b, first), b, first + 1, n - 1)

\* std::destroy_n(first, n)
RECURSIVE destroy_n(_, _, _, _)
destroy_n(c, b, first, n) ==
    IF n = 0 THEN c
    ELSE destroy_n(DestroyAt(c, b, first), b, first + 1, n - 1)

\* std::uninitialized_copy_n(src, n, dst): copy-constructs in index order;
\* when a copy throws, the objects it constructed are destroyed
RECURSIVE CopyLoop(_, _, _, _, _, _, _)
CopyLoop(c, sb, si, n, db, di, k) ==
    IF k = n THEN c
    ELSE LET c1 == CopyConstructAt(c, db, di + k, sb, si + k)
         IN  IF c1.threw THEN destroy_n(c1, db, di, k)
             ELSE CopyLoop(c1, sb, si, n, db, di, k + 1)

uninitialized_copy_n(c, sb, si, n, db, di) ==
    IF c.threw THEN c ELSE CopyLoop(c, sb, si, n, db, di, 0)

\* std::uninitialized_move_n(src, n, dst)
RECURSIVE MoveLoop(_, _, _, _, _, _, _)
MoveLoop(c, sb, si, n, db, di, k) ==
    IF k = n THEN c
    ELSE LET c1 == MoveConstructAt(c, db, di + k, sb, si + k)
         IN  IF c1.threw THEN destroy_n(c1, db, di, k)
             ELSE MoveLoop(c1, sb, si, n, db, di, k + 1)

uninitialized_move_n(c, sb, si, n, db, di) ==
    IF c.threw THEN c ELSE MoveLoop(c, sb, si, n, db, di, 0)

\* value construction that leaves what it built when a constructor throws
RECURSIVE ValueLoop_NoUnwind(_, _, _, _, _)
ValueLoop_NoUnwind(c, db, di, n, k) ==
    IF k = n THEN c
    ELSE LET c1 == ConstructAt(c, db, di + k, 0)
         IN  IF c1.threw THEN c1
             ELSE ValueLoop_NoUnwind(c1, db, di, n, k + 1)

\* std::uninitialized_value_construct_n(dst, n): T() has value 0
RECURSIVE ValueLoop(_, _, _, _, _)
ValueLoop(c, db, di, n, k) ==
    IF k = n THEN c
    ELSE LET c1 == ConstructAt(c, db, di + k, 0)
         IN  IF c1.threw THEN destroy_n(c1, db, di, k)
             ELSE ValueLoop(c1, db, di, n, k + 1)

uninitialized_value_construct_n(c, db, di, n) ==
    IF c.threw THEN c ELSE ValueLoop(c, db, di, n, 0)

\* std::copy leaving the last element of the range out
RECURSIVE copy_n_Short(_, _, _, _, _, _)
copy_n_Short(c, sb, si, n, db, di) ==
    IF n <= 1 THEN c
    ELSE copy_n_Short(CopyAssign(c, db, di, sb, si), sb, si + 1, n - 1, db, di + 1)

\* std::copy(first, first + n, dst): copy-assigns front to back
RECURSIVE copy_n(_, _, _, _, _, _)
copy_n(c, sb, si, n, db, di) ==
    IF n = 0 THEN c
    ELSE copy_n(CopyAssign(c, db, di, sb, si), sb, si + 1, n - 1, db, di + 1)

\* std::move going back to front, as move_backward does
RECURSIVE move_range_Backward(_, _, _, _, _)
move_range_Backward(c, b, first, lst, dst) ==
    IF first >= lst THEN c
    ELSE move_range_Backward(
             MoveAssign(c, b, dst + (lst - 1 - first), b, lst - 1),
             b, first, lst - 1, dst)

\* std::move(first, last, dst) on one block: move-assigns front to back
RECURSIVE move_range(_, _, _, _, _)
move_range(c, b, first, lst, dst) ==
    IF first >= lst THEN c
    ELSE move_range(MoveAssign(c, b, dst, b, first), b, first + 1, lst, dst + 1)

\* std::move_backward(first, last, dLast) on one block: move-assigns back
\* to front, the last source element to dLast - 1
RECURSIVE move_backward(_, _, _, _, _)
move_backward(c, b, first, lst, dLast) ==
    IF first >= lst THEN c
    ELSE move_backward(MoveAssign(c, b, dLast - 1, b, lst - 1),
                       b, first, lst - 1, dLast - 1)

----------------------------------------------------------------------------
(* RawMemory<T> and Vector<T> objects *)

\* RawMemory(): buffer_ = nullptr, capacity_ = 0
EmptyRawMemory == [buffer_ |-> nullptr, capacity_ |-> 0]

\* Vector(): an empty RawMemory and size_ = 0
EmptyVector == [alive |-> TRUE, data_ |-> EmptyRawMemory, size_ |-> 0]

\* a Vector that is not constructed (or was destroyed)
NoVector == [alive |-> FALSE, data_ |-> EmptyRawMemory, size_ |-> 0]

Capacity(me) == me.data_.capacity_

Size(me) == me.size_

IsEmpty(me) == me.size_ = 0

\* the value read at slot i of block b (-1: there is no such slot)
ValueAt(h, b, i) ==
    IF b \in DOMAIN h /\ i \in DOMAIN h[b] THEN h[b][i].val ELSE -1

\* the values of the elements, in index order (operator[] for each index)
Values(h, me) ==
    [i \in 1..me.size_ |-> ValueAt(h, me.data_.buffer_, i - 1)]

\* the result of a member function: the object, the context, the value
\* returned (an index into the object's block, or -1)
Result(me, c, ret, realloc) ==
    [me |-> me, c |-> c, ret |-> ret, realloc |-> realloc]

\* a transfer that moves whatever T is
Transfer_AlwaysMoves(c, sb, si, n, db, di) ==
    uninitialized_move_n(c, sb, si, n, db, di)

\* which way the elements go to a new block: moved when T's move
\* constructor cannot throw or T cannot be copied, else copied
Transfer(c, sb, si, n, db, di) ==
    IF T.nothrowMove THEN uninitialized_move_n(c, sb, si, n, db, di)
    ELSE uninitialized_copy_n(c, sb, si, n, db, di)

\* growth by one slot instead of doubling
Grown_ByOne(me) == me.size_ + 1

\* new capacity on growth
Grown(me) == IF IsEmpty(me) THEN 1 ELSE me.size_ * 2

\* Vector::EmplaceBack(args...), args making an object of value x
EmplaceBackOp(me, c, x) ==
    IF me.size_ = Capacity(me)
    THEN LET cap == Grown(me)
             nb  == Allocate(c, cap)
             old == me.data_.buffer_
             c1  == Allocated(c, nb, cap)
             c2  == ConstructAt(c1, nb, me.size_, x)
             c3  == Transfer(c2, old, 0, me.size_, nb, 0)
             c4  == destroy_n(c3, old, 0, me.size_)
         IN  IF c3.threw
             THEN \* new_data goes out of scope: ~RawMemory
                  Result(me, Deallocate(c3, nb), -1, TRUE)
             ELSE \* data_.Swap(new_data); ~RawMemory of the old block; ++size_
                  Result([me EXCEPT !.data_ = [buffer_ |-> nb, capacity_ |-> cap],
                                    !.size_ = @ + 1],
                         Deallocate(c4, old), me.size_, TRUE)
    ELSE LET c1 == ConstructAt(c, me.data_.buffer_, me.size_, x)
         IN  IF c1.threw THEN Result(me, c1, -1, FALSE)
             ELSE Result([me EXCEPT !.size_ = @ + 1], c1, me.size_, FALSE)

\* PopBack without the test for an empty vector
PopBackOp_Unguarded(me, c) ==
    Result([me EXCEPT !.size_ = @ - 1],
           DestroyAt(c, me.data_.buffer_, me.size_ - 1), -1, FALSE)

\* Vector::PopBack()
PopBackOp(me, c) ==
    IF me.size_ > 0
    THEN Result([me EXCEPT !.size_ = @ - 1],
                DestroyAt(c, me.data_.buffer_, me.size_ - 1), -1, FALSE)
    ELSE Result(me, c, -1, FALSE)

\* Vector::Emplace(pos, args...), pos = begin() + shift
EmplaceOp(me, c, shift, x) ==
    IF me.size_ = Capacity(me)
    THEN LET cap == Grown(me)
             nb  == Allocate(c, cap)
             old == me.data_.buffer_
             c1  == Allocated(c, nb, cap)
             c2  == ConstructAt(c1, nb, shift, x)
             c3  == Transfer(c2, old, 0, shift, nb, 0)
             c4  == Transfer(c3, old, shift, me.size_ - shift, nb, shift + 1)
             c5  == destroy_n(c4, old, 0, me.size_)
         IN  IF c4.threw
             THEN Result(me, Deallocate(c4, nb), -1, TRUE)
             ELSE Result([me EXCEPT !.data_ = [buffer_ |-> nb, capacity_ |-> cap],
                                    !.size_ = @ + 1],
                         Deallocate(c5, old), shift, TRUE)
    ELSE LET b  == me.data_.buffer_
             c1 == IF me.size_ # 0
                   THEN MoveConstructAt(c, b, me.size_, b, me.size_ - 1)
                   ELSE c
             c2 == IF me.size_ # 0
                   THEN move_backward(c1, b, shift, me.size_, me.size_ + 1)
                   ELSE c1
             c3 == IF me.size_ # 0 /\ ~c2.threw THEN DestroyAt(c2, b, shift) ELSE c2
             c4 == ConstructAt(c3, b, shift, x)
         IN  IF c4.threw THEN Result(me, c4, -1, FALSE)
             ELSE Result([me EXCEPT !.size_ = @ + 1], c4, shift, FALSE)

\* Vector::Erase(pos), pos = begin() + index
EraseOp(me, c, index) ==
    LET c1 == move_range(c, me.data_.buffer_, index + 1, me.size_, index)
    IN  IF c1.threw THEN Result(me, c1, -1, FALSE)
        ELSE LET r == PopBackOp(me, c1)
             IN  Result(r.me, r.c, index, FALSE)

\* Reserve growing to at least twice the capacity held
ReserveOp_Doubling(me, c, new_capacity) ==
    IF new_capacity <= Capacity(me) THEN Result(me, c, -1, FALSE)
    ELSE LET cap == IF new_capacity < 2 * Capacity(me)
                    THEN 2 * Capacity(me) ELSE new_capacity
             nb  == Allocate(c, cap)
             old == me.data_.buffer_
             c1  == Allocated(c, nb, cap)
             c2  == Transfer(c1, old, 0, me.size_, nb, 0)
             c3  == destroy_n(c2, old, 0, me.size_)
         IN  IF c2.threw
             THEN Result(me, Deallocate(c2, nb), -1, TRUE)
             ELSE Result([me EXCEPT !.data_ = [buffer_ |-> nb,
                                               capacity_ |-> cap]],
                         Deallocate(c3, old), -1, TRUE)

\* Vector::Reserve(new_capacity)
ReserveOp(me, c, new_capacity) ==
    IF new_capacity <= Capacity(me) THEN Result(me, c, -1, FALSE)
    ELSE LET nb  == Allocate(c, new_capacity)
             old == me.data_.buffer_
             c1  == Allocated(c, nb, new_capacity)
             c2  == Transfer(c1, old, 0, me.size_, nb, 0)
             c3  == destroy_n(c2, old, 0, me.size_)
         IN  IF c2.threw
             THEN Result(me, Deallocate(c2, nb), -1, TRUE)
             ELSE Result([me EXCEPT !.data_ = [buffer_ |-> nb,
                                               capacity_ |-> new_capacity]],
                         Deallocate(c3, old), -1, TRUE)

\* Resize that grows the elements and forgets the new size
ResizeOp_StaleSize(me, c, new_size) ==
    IF new_size < me.size_
    THEN Result([me EXCEPT !.size_ = new_size],
                destroy_n(c, me.data_.buffer_, new_size, me.size_ - new_size),
                -1, FALSE)
    ELSE LET r  == ReserveOp(me, c, new_size)
             c1 == uninitialized_value_construct_n(r.c, r.me.data_.buffer_,
                                                   me.size_, new_size - me.size_)
         IN  Result(r.me, c1, -1, r.realloc)

\* Resize that grows without reserving
ResizeOp_NoReserve(me, c, new_size) ==
    IF new_size < me.size_
    THEN Result([me EXCEPT !.size_ = new_size],
                destroy_n(c, me.data_.buffer_, new_size, me.size_ - new_size),
                -1, FALSE)
    ELSE LET c1 == uninitialized_value_construct_n(c, me.data_.buffer_,
                                                   me.size_, new_size - me.size_)
         IN  IF c1.threw THEN Result(me, c1, -1, FALSE)
             ELSE Result([me EXCEPT !.size_ = new_size], c1, -1, FALSE)

\* Vector::Resize(new_size)
ResizeOp(me, c, new_size) ==
    IF new_size < me.size_
    THEN Result([me EXCEPT !.size_ = new_size],
                destroy_n(c, me.data_.buffer_, new_size, me.size_ - new_size),
                -1, FALSE)
    ELSE LET r  == ReserveOp(me, c, new_size)
             c1 == uninitialized_value_construct_n(r.c, r.me.data_.buffer_,
                                                   me.size_, new_size - me.size_)
         IN  IF c1.threw THEN Result(r.me, c1, -1, r.realloc)
             ELSE Result([r.me EXCEPT !.size_ = new_size], c1, -1, r.realloc)

\* Vector::Vector(size_t size)
SizedOp(c, size) ==
    LET b  == Allocate(c, size)
        c1 == Allocated(c, b, size)
        c2 == uninitialized_value_construct_n(c1, b, 0, size)
    IN  IF c2.threw
        THEN \* the member data_ is destroyed; no Vector comes to exist
             Result(NoVector, Deallocate(c2, b), -1, FALSE)
        ELSE Result([alive |-> TRUE,
                     data_ |-> [buffer_ |-> b, capacity_ |-> size],
                     size_ |-> size], c2, -1, FALSE)

\* a copy constructor that copies the members instead of the elements
CopyOp_Shallow(c, other) ==
    Result([alive |-> TRUE, data_ |-> other.data_, size_ |-> other.size_],
           c, -1, FALSE)

\* Vector::Vector(const Vector& other)
CopyOp(c, other) ==
    LET b  == Allocate(c, other.size_)
        c1 == Allocated(c, b, other.size_)
        c2 == uninitialized_copy_n(c1, other.data_.buffer_, 0, other.size_, b, 0)
    IN  IF c2.threw
        THEN Result(NoVector, Deallocate(c2, b), -1, FALSE)
        ELSE Result([alive |-> TRUE,
                     data_ |-> [buffer_ |-> b, capacity_ |-> other.size_],
                     size_ |-> other.size_], c2, -1, FALSE)

\* Vector::~Vector(), then ~RawMemory() of the member data_
DestructorOp(me, c) ==
    Result(NoVector,
           Deallocate(destroy_n(c, me.data_.buffer_, 0, me.size_),
                      me.data_.buffer_),
           -1, FALSE)

\* Swap exchanging the storage and not the sizes
SwapOp_DataOnly(me, other) ==
    [me    |-> [me EXCEPT !.data_ = other.data_],
     other |-> [other EXCEPT !.data_ = me.data_]]

\* RawMemory::Swap and Vector::Swap: the two objects after the exchange
SwapOp(me, other) ==
    [me    |-> [me EXCEPT !.data_ = other.data_, !.size_ = other.size_],
     other |-> [other EXCEPT !.data_ = me.data_, !.size_ = me.size_]]

\* Vector::Vector(Vector&& other): the members are default-initialised,
\* then Swap(other)
MoveOp(other) == SwapOp(EmptyVector, other)

\* Vector::operator=(Vector&& rhs); self says this == &rhs
MoveAssignOp(me, rhs, self) ==
    IF ~self THEN SwapOp(me, rhs) ELSE [me |-> me, other |-> rhs]

\* copy-assignment that always builds a copy and swaps it in
CopyAssignOp_AlwaysRebuild(me, c, rhs, self) ==
    IF self THEN Result(me, c, -1, FALSE)
    ELSE LET r == CopyOp(c, rhs)
             s == SwapOp(me, r.me)
         IN  IF r.c.threw THEN Result(me, r.c, -1, TRUE)
             ELSE Result(s.me, DestructorOp(s.other, r.c).c, -1, TRUE)

\* Vector::operator=(const Vector& rhs); self says this == &rhs
CopyAssignOp(me, c, rhs, self) ==
    IF self THEN Result(me, c, -1, FALSE)
    ELSE IF Capacity(me) < rhs.size_
    THEN LET r == CopyOp(c, rhs)          \* Vector rhs_copy(rhs)
             s == SwapOp(me, r.me)        \* Swap(rhs_copy)
         IN  IF r.c.threw THEN Result(me, r.c, -1, TRUE)
             ELSE Result(s.me, DestructorOp(s.other, r.c).c, -1, TRUE)
    ELSE LET b == me.data_.buffer_
             rb == rhs.data_.buffer_
         IN  IF rhs.size_ < me.size_
             THEN LET c1 == copy_n(c, rb, 0, rhs.size_, b, 0)
                  IN  IF c1.threw THEN Result(me, c1, -1, FALSE)
                      ELSE Result([me EXCEPT !.size_ = rhs.size_],
                                  destroy_n(c1, b, rhs.size_,
                                            me.size_ - rhs.size_),
                                  -1, FALSE)
             ELSE LET c1 == copy_n(c, rb, 0, me.size_, b, 0)
                      c2 == uninitialized_copy_n(c1, rb, me.size_,
                                                 rhs.size_ - me.size_,
                                                 b, me.size_)
                  IN  IF c2.threw THEN Result(me, c2, -1, FALSE)
                      ELSE Result([me EXCEPT !.size_ = rhs.size_], c2, -1, FALSE)

----------------------------------------------------------------------------
(* The assertions of RawMemory that the member functions of Vector reach *)

\* RawMemory::operator+(offset): assert(offset <= capacity_)
PlusAssert(raw, offset) == offset <= raw.capacity_

\* RawMemory::operator[](index): assert(index < capacity_)
IndexAssert(raw, index) == index < raw.capacity_

\* EmplaceBack: new_data+size_ when it reallocates, else data_+size_
EmplaceBackAsserts(me) ==
    IF me.size_ = Capacity(me)
    THEN PlusAssert([buffer_ |-> nullptr, capacity_ |-> Grown(me)], me.size_)
    ELSE PlusAssert(me.data_, me.size_)

\* Emplace: new_data+shift when it reallocates, else data_+size_ (when the
\* vector is not empty) and data_+shift
EmplaceAsserts(me, shift) ==
    IF me.size_ = Capacity(me)
    THEN PlusAssert([buffer_ |-> nullptr, capacity_ |-> Grown(me)], shift)
    ELSE /\ me.size_ # 0 => PlusAssert(me.data_, me.size_)
         /\ PlusAssert(me.data_, shift)

\* Vector::operator[](index): data_[index]
SubscriptAsserts(me, index) == IndexAssert(me.data_, index)

----------------------------------------------------------------------------
(* The actions: one per member function *)

NoCall == [op |-> "none", threw |-> FALSE, realloc |-> FALSE, ub |-> FALSE]

\* undefined behaviour: every fault but a leak
UB(c) == c.faults \ {"leak"} # {}

Call(op, v, r) ==
    [op |-> op, threw |-> r.c.threw, realloc |-> r.realloc, ub |-> UB(r.c)]

\* the slots of all allocated blocks
RECURSIVE SlotsOf(_, _)
SlotsOf(h, S) ==
    IF S = {} THEN 0
    ELSE LET b == CHOOSE b \in S : TRUE
         IN  Cardinality(DOMAIN h[b]) + SlotsOf(h, S \ {b})

HeapUsed(h) == SlotsOf(h, DOMAIN h)

\* the bound on the memory the program's Vectors own between two calls
Budget == IF DOMAIN vec = {"a"} THEN MaxCap ELSE MaxSlots

\* the sizes, capacities and positions a call is given
Sizes == 0..Budget

\* a call is made unless the program has run into undefined behaviour, and
\* (the model's bound) only when the memory it leaves allocated fits
Proceeds(h) == ~last.ub /\ HeapUsed(h) <= Budget

\* Addresses are opaque: operator new may return any free one.  Between
\* two calls the model names the blocks in a fixed order: first the blocks
\* of the Vector objects a and b, then any block no Vector holds.
OwnedSeq(vs) ==
    LET A == IF "a" \in DOMAIN vs /\ vs["a"].data_.buffer_ # nullptr
             THEN <<vs["a"].data_.buffer_>> ELSE << >>
        B == IF /\ "b" \in DOMAIN vs
                /\ vs["b"].data_.buffer_ # nullptr
                /\ \A i \in 1..Len(A) : A[i] # vs["b"].data_.buffer_
             THEN <<vs["b"].data_.buffer_>> ELSE << >>
    IN  A \o B

RECURSIVE Ascending(_)
Ascending(S) ==
    IF S = {} THEN << >>
    ELSE LET m == CHOOSE m \in S : \A n \in S : m <= n
         IN  <<m>> \o Ascending(S \ {m})

\* the blocks in naming order: those held, then those allocated and not held
BlockOrder(vs, h) ==
    LET own == OwnedSeq(vs)
    IN  own \o Ascending(DOMAIN h \ {own[i] : i \in 1..Len(own)})

\* the new name of address b
NewName(order, b) ==
    IF b = nullptr THEN nullptr ELSE CHOOSE i \in 1..Len(order) : order[i] = b

RenamedHeap(vs, h) ==
    LET order == BlockOrder(vs, h)
        live  == {i \in 1..Len(order) : order[i] \in DOMAIN h}
    IN  [i \in live |-> h[order[i]]]

RenamedVecs(vs, h) ==
    LET order == BlockOrder(vs, h)
    IN  [v \in DOMAIN vs |->
            [vs[v] EXCEPT !.data_.buffer_ = NewName(order, @)]]

\* the program's state after a call: the Vector objects vs, the heap h
After(vs, h, call) ==
    /\ vec' = RenamedVecs(vs, h)
    /\ heap' = RenamedHeap(vs, h)
    /\ last' = call
    /\ UNCHANGED <<T, mem>>

\* a member function of vec[v] returned (or threw) with result r
Returns(v, r, call) ==
    /\ Proceeds(r.c.heap)
    /\ After([vec EXCEPT ![v] = r.me], r.c.heap, call)

\* a member function of vec[v] exchanged vec[v] and vec[w]: s.me, s.other
Exchanged(v, w, s, call) ==
    /\ Proceeds(heap)
    /\ After([vec EXCEPT ![v] = s.me, ![w] = s.other], heap, call)

\* Vector(): v comes to exist, empty
DefaultConstruct(v) ==
    /\ ~vec[v].alive
    /\ Returns(v, Result(EmptyVector, Ctx(heap, 0), -1, FALSE),
               Call("Vector", v, Result(EmptyVector, Ctx(heap, 0), -1, FALSE)))

\* Vector(size)
SizedConstruct(v, size, failAt) ==
    /\ ~vec[v].alive
    /\ LET r == SizedOp(Ctx(heap, failAt), size)
       IN  Returns(v, r, Call("VectorN", v, r))

\* Vector(const Vector& other), other = vec[w]
CopyConstruct(v, w, failAt) ==
    /\ ~vec[v].alive /\ vec[w].alive
    /\ LET r == CopyOp(Ctx(heap, failAt), vec[w])
       IN  Returns(v, r, Call("VectorCopy", v, r))

\* Vector(Vector&& other), other = vec[w]
MoveConstruct(v, w) ==
    /\ ~vec[v].alive /\ vec[w].alive
    /\ LET s == MoveOp(vec[w])
           r == Result(s.me, Ctx(heap, 0), -1, FALSE)
       IN  Exchanged(v, w, s, Call("VectorMove", v, r))

\* ~Vector()
Destructor(v) ==
    /\ vec[v].alive
    /\ LET r == DestructorOp(vec[v], Ctx(heap, 0))
       IN  Returns(v, r, Call("~Vector", v, r))

\* operator=(const Vector& rhs): vec[v] = vec[w]
CopyAssignment(v, w, failAt) ==
    /\ vec[v].alive /\ vec[w].alive
    /\ LET r == CopyAssignOp(vec[v], Ctx(heap, failAt), vec[w], v = w)
       IN  Returns(v, r, Call("CopyAssign", v, r))

\* operator=(Vector&& rhs): vec[v] = std::move(vec[w])
MoveAssignment(v, w) ==
    /\ vec[v].alive /\ vec[w].alive
    /\ LET s == MoveAssignOp(vec[v], vec[w], v = w)
           r == Result(s.me, Ctx(heap, 0), -1, FALSE)
       IN  Exchanged(v, w, s, Call("MoveAssign", v, r))

\* Swap(other)
Swap(v, w) ==
    /\ vec[v].alive /\ vec[w].alive
    /\ LET s == SwapOp(vec[v], vec[w])
           r == Result(s.me, Ctx(heap, 0), -1, FALSE)
       IN  Exchanged(v, w, s, Call("Swap", v, r))

Reserve(v, n, failAt) ==
    /\ vec[v].alive
    /\ LET r == ReserveOp(vec[v], Ctx(heap, failAt), n)
       IN  Returns(v, r, Call("Reserve", v, r))

Resize(v, n, failAt) ==
    /\ vec[v].alive
    /\ LET r == ResizeOp(vec[v], Ctx(heap, failAt), n)
       IN  Returns(v, r, Call("Resize", v, r))

EmplaceBack(v, x, failAt) ==
    /\ vec[v].alive
    /\ LET r == EmplaceBackOp(vec[v], Ctx(heap, failAt), x)
       IN  Returns(v, r, Call("EmplaceBack", v, r))

\* PushBack(const T&) and PushBack(T&&) forward to EmplaceBack
PushBack(v, x, failAt) == EmplaceBack(v, x, failAt)

PopBack(v) ==
    /\ vec[v].alive
    /\ LET r == PopBackOp(vec[v], Ctx(heap, 0))
       IN  Returns(v, r, Call("PopBack", v, r))

\* the caller's precondition: begin() <= pos <= end()
Emplace(v, pos, x, failAt) ==
    /\ vec[v].alive
    /\ pos <= vec[v].size_
    /\ LET r == EmplaceOp(vec[v], Ctx(heap, failAt), pos, x)
       IN  Returns(v, r, Call("Emplace", v, r))

\* Insert(pos, const T&) and Insert(pos, T&&) forward to Emplace
Insert(v, pos, x, failAt) == Emplace(v, pos, x, failAt)

\* the caller's precondition: begin() <= pos < end()
Erase(v, pos, failAt) ==
    /\ vec[v].alive
    /\ pos < vec[v].size_
    /\ LET r == EraseOp(vec[v], Ctx(heap, failAt), pos)
       IN  Returns(v, r, Call("Erase", v, r))

\* A program with the Vector objects a and b: a is default-constructed,
\* b is not constructed yet
Init ==
    /\ T \in Types
    /\ vec = [v \in Vecs |-> IF v = "a" THEN EmptyVector ELSE NoVector]
    /\ heap = << >>
    /\ last = NoCall
    /\ hist = [pushes |-> 0, pops |-> 0, expect |-> << >>]
    /\ mem = << >>

\* A program with one default-constructed Vector, a
InitOne ==
    /\ T \in Types
    /\ vec = [v \in {"a"} |-> EmptyVector]
    /\ heap = << >>
    /\ last = NoCall
    /\ hist = [pushes |-> 0, pops |-> 0, expect |-> << >>]
    /\ mem = << >>

\* a call of a program that keeps no push/pop history
Plain(A) == A /\ UNCHANGED hist

\* Calls that succeed, on two Vector objects
Next ==
    \/ \E v \in Vecs : Plain(DefaultConstruct(v))
    \/ \E v \in Vecs, n \in Sizes : Plain(SizedConstruct(v, n, 0))
    \/ \E v, w \in Vecs : Plain(CopyConstruct(v, w, 0))
    \/ \E v, w \in Vecs : Plain(MoveConstruct(v, w))
    \/ \E v \in Vecs : Plain(Destructor(v))
    \/ \E v, w \in Vecs : Plain(CopyAssignment(v, w, 0))
    \/ \E v, w \in Vecs : Plain(MoveAssignment(v, w))
    \/ \E v, w \in Vecs : Plain(Swap(v, w))
    \/ \E v \in Vecs, n \in Sizes : Plain(Reserve(v, n, 0))
    \/ \E v \in Vecs, n \in Sizes : Plain(Resize(v, n, 0))
    \/ \E v \in Vecs, x \in Val : Plain(PushBack(v, x, 0))
    \/ \E v \in Vecs : Plain(PopBack(v))
    \/ \E v \in Vecs, pos \in Sizes, x \in Val : Plain(Insert(v, pos, x, 0))
    \/ \E v \in Vecs, pos \in Sizes : Plain(Erase(v, pos, 0))

Spec == Init /\ [][Next]_vars

\* Calls on one Vector, each of which may throw from an element operation
NextThrow ==
    \/ \E n \in Sizes, f \in FailPoints : Plain(Reserve("a", n, f))
    \/ \E n \in Sizes, f \in FailPoints : Plain(Resize("a", n, f))
    \/ \E x \in Val, f \in FailPoints : Plain(PushBack("a", x, f))
    \/ Plain(PopBack("a"))
    \/ \E pos \in Sizes, x \in Val, f \in FailPoints : Plain(Insert("a", pos, x, f))
    \/ \E pos \in Sizes, f \in FailPoints : Plain(Erase("a", pos, f))

SpecThrow == InitOne /\ [][NextThrow]_vars

\* the calls so far, after PushBack(x): one more push, x expected at the end
Pushed(h, x) == [h EXCEPT !.pushes = @ + 1, !.expect = Append(@, x)]

\* the calls so far, after PopBack(): on a non-empty vector, one more pop
\* and the last value gone
Popped(h) ==
    IF h.expect = << >> THEN h
    ELSE [h EXCEPT !.pops = @ + 1, !.expect = SubSeq(@, 1, Len(@) - 1)]

\* A program that only calls PushBack and PopBack on one Vector
NextPushPop ==
    \/ \E x \in Val : /\ hist.pushes < MaxPushes
                      /\ PushBack("a", x, 0)
                      /\ hist' = Pushed(hist, x)
    \/ /\ PopBack("a")
       /\ hist' = Popped(hist)

SpecPushPop == InitOne /\ [][NextPushPop]_vars

\* A program with one default-constructed Vector a, of any of the three
\* kinds of T
InitReserve ==
    /\ T \in Types \cup {ThrowingMove}
    /\ vec = [v \in {"a"} |-> EmptyVector]
    /\ heap = << >>
    /\ last = NoCall
    /\ hist = [pushes |-> 0, pops |-> 0, expect |-> << >>]
    /\ mem = << >>

\* A program that fills one Vector and calls Reserve and Resize, either of
\* which may throw from an element operation
NextReserve ==
    \/ \E n \in Sizes, f \in FailPoints : Plain(Reserve("a", n, f))
    \/ \E n \in Sizes, f \in FailPoints : Plain(Resize("a", n, f))
    \/ \E x \in Val : Plain(PushBack("a", x, 0))
    \/ Plain(PopBack("a"))

SpecReserve == InitReserve /\ [][NextReserve]_vars

\* A program that fills Vectors by PushBack and constructs Vectors of a
\* size and copies of Vectors, where an element constructor may throw
NextConstruct ==
    \/ \E v \in Vecs, n \in Sizes, f \in FailPoints :
          Plain(SizedConstruct(v, n, f))
    \/ \E v, w \in Vecs, f \in FailPoints : Plain(CopyConstruct(v, w, f))
    \/ \E v \in Vecs : Plain(Destructor(v))
    \/ \E v \in Vecs, x \in Val : Plain(PushBack(v, x, 0))
    \/ \E v \in Vecs : Plain(PopBack(v))

SpecConstruct == Init /\ [][NextConstruct]_vars

----------------------------------------------------------------------------
(* RawMemory<T> used on its own *)

\* a RawMemory that is not constructed (or was destroyed)
NoRawMemory == [alive |-> FALSE, buffer_ |-> nullptr, capacity_ |-> 0]

\* RawMemory::RawMemory(size_t capacity)
RawMemoryOp(c, capacity) ==
    LET b == Allocate(c, capacity)
    IN  [me |-> [alive |-> TRUE, buffer_ |-> b, capacity_ |-> capacity],
         c  |-> Allocated(c, b, capacity)]

\* RawMemory::RawMemory(RawMemory&& other): std::move of the values
\* GetAddress() and Capacity() return copies them; other is not written
RawMoveOp(other) ==
    [me    |-> [alive |-> TRUE, buffer_ |-> other.buffer_,
                capacity_ |-> other.capacity_],
     other |-> other]

\* RawMemory::operator=(RawMemory&& rhs): the same two assignments; the
\* block held before is not released and rhs is not written
RawMoveAssignOp(me, rhs) ==
    [me    |-> [me EXCEPT !.buffer_ = rhs.buffer_,
                          !.capacity_ = rhs.capacity_],
     other |-> rhs]

\* RawMemory::Swap
RawSwapOp(me, other) ==
    [me    |-> [me EXCEPT !.buffer_ = other.buffer_,
                          !.capacity_ = other.capacity_],
     other |-> [other EXCEPT !.buffer_ = me.buffer_,
                             !.capacity_ = me.capacity_]]

\* RawMemory::~RawMemory
RawDestructorOp(me, c) == [me |-> NoRawMemory, c |-> Deallocate(c, me.buffer_)]

\* the program's state after a call on RawMemory objects
RawAfter(ms, c, op) ==
    /\ ~last.ub
    /\ HeapUsed(c.heap) <= MaxRawSlots
    /\ mem' = ms
    /\ heap' = c.heap
    /\ last' = [op |-> op, threw |-> FALSE, realloc |-> FALSE, ub |-> UB(c)]
    /\ UNCHANGED <<T, vec, hist>>

RawConstruct(m, n) ==
    /\ ~mem[m].alive
    /\ LET r == RawMemoryOp(Ctx(heap, 0), n)
       IN  RawAfter([mem EXCEPT ![m] = r.me], r.c, "RawMemoryN")

RawMoveConstruct(m, w) ==
    /\ ~mem[m].alive /\ mem[w].alive
    /\ LET s == RawMoveOp(mem[w])
       IN  RawAfter([mem EXCEPT ![m] = s.me, ![w] = s.other], Ctx(heap, 0),
                    "RawMemoryMove")

RawMoveAssignment(m, w) ==
    /\ mem[m].alive /\ mem[w].alive
    /\ LET s == RawMoveAssignOp(mem[m], mem[w])
       IN  RawAfter([mem EXCEPT ![w] = s.other, ![m] = s.me], Ctx(heap, 0),
                    "RawMoveAssign")

RawSwap(m, w) ==
    /\ mem[m].alive /\ mem[w].alive
    /\ LET s == IF m = w THEN [me |-> mem[m], other |-> mem[w]]
                ELSE RawSwapOp(mem[m], mem[w])
       IN  RawAfter([mem EXCEPT ![w] = s.other, ![m] = s.me], Ctx(heap, 0),
                    "RawSwap")

RawDestructor(m) ==
    /\ mem[m].alive
    /\ LET r == RawDestructorOp(mem[m], Ctx(heap, 0))
       IN  RawAfter([mem EXCEPT ![m] = r.me], r.c, "~RawMemory")

\* A program with RawMemory objects only, none constructed yet
InitRaw ==
    /\ T = CopyOnly
    /\ vec = << >>
    /\ heap = << >>
    /\ last = NoCall
    /\ hist = [pushes |-> 0, pops |-> 0, expect |-> << >>]
    /\ mem = [m \in Mems |-> NoRawMemory]

NextRaw ==
    \/ \E m \in Mems, n \in 0..MaxRawCap : RawConstruct(m, n)
    \/ \E m, w \in Mems : RawMoveConstruct(m, w)
    \/ \E m, w \in Mems : RawMoveAssignment(m, w)
    \/ \E m, w \in Mems : RawSwap(m, w)
    \/ \E m \in Mems : RawDestructor(m)

SpecRaw == InitRaw /\ [][NextRaw]_vars

----------------------------------------------------------------------------
(* What the claims say, in terms of the sequence of element values *)

\* the Vector objects that exist
Alive == {v \in DOMAIN vec : vec[v].alive}

\* the sequence s with x inserted before its (0-based) position pos
InsertAt(s, pos, x) == SubSeq(s, 1, pos) \o <<x>> \o SubSeq(s, pos + 1, Len(s))

\* the sequence s without the element at its (0-based) position pos
RemoveAt(s, pos) == SubSeq(s, 1, pos) \o SubSeq(s, pos + 2, Len(s))

\* C1: after any sequence of PushBack and PopBack calls on a default-
\* constructed Vector, the size is the number of pushes minus the number of
\* pops made on a non-empty vector, and the elements are the surviving
\* pushed values in push order.
C1_PushPopOrder ==
    /\ vec["a"].size_ = hist.pushes - hist.pops
    /\ Values(heap, vec["a"]) = hist.expect

\* pushes went through the capacities 1, 2 and 4, pops followed, and the
\* last push refilled the vector to three values that are not all equal
C1_Witness ==
    /\ hist.pushes >= 4 /\ hist.pops >= 1
    /\ last.op = "EmplaceBack"
    /\ vec["a"].size_ = 3 /\ Capacity(vec["a"]) = 4
    /\ \E i, j \in 1..3 : hist.expect[i] # hist.expect[j]

\* C2: for every Vector, position pos in [0, size] and value x, after
\* Insert(pos, x) / Emplace(pos, x) index pos holds x, the elements before
\* pos are unchanged, those from pos on are one place further in the same
\* order, and the size has grown by one; whatever T and whether or not the
\* call reallocates.
C2_InsertShifts ==
    \A v \in Alive : \A pos \in 0..vec[v].size_, x \in Val :
        LET r == EmplaceOp(vec[v], Ctx(heap, 0), pos, x)
        IN  /\ r.me.size_ = vec[v].size_ + 1
            /\ Values(r.c.heap, r.me) = InsertAt(Values(heap, vec[v]), pos, x)

\* C3: for every non-empty Vector and position pos in [0, size), Erase(pos)
\* removes exactly the element at pos: the elements before it are unchanged,
\* those after it are one place nearer, the size is one less, the capacity
\* and the block are unchanged, and the position returned is pos.
C3_EraseRemovesOne ==
    \A v \in Alive : \A pos \in 0..(vec[v].size_ - 1) :
        LET r == EraseOp(vec[v], Ctx(heap, 0), pos)
        IN  /\ ~r.c.threw
            /\ r.me.size_ = vec[v].size_ - 1
            /\ Values(r.c.heap, r.me) = RemoveAt(Values(heap, vec[v]), pos)
            /\ r.me.data_ = vec[v].data_
            /\ r.ret = pos

\* Erase returned and left two elements of different values behind
C3_Witness ==
    /\ last.op = "Erase" /\ ~last.threw
    /\ \E v \in Alive : /\ vec[v].size_ = 2
                        /\ Values(heap, vec[v])[1] # Values(heap, vec[v])[2]

\* the two objects after a move: the target has the source's prior elements
TargetTakes(s, source) ==
    /\ s.me.size_ = source.size_
    /\ Values(heap, s.me) = Values(heap, source)

\* C4 as stated: after move-construction, and after move-assignment into
\* any target, the source has size 0 and the target has the source's prior
\* size and element values.
C4_MoveEmptiesSource ==
    /\ \A w \in Alive :
          LET s == MoveOp(vec[w])
          IN  s.other.size_ = 0 /\ TargetTakes(s, vec[w])
    /\ \A v \in Alive, w \in Alive :
          v # w => LET s == MoveAssignOp(vec[v], vec[w], FALSE)
                   IN  s.other.size_ = 0 /\ TargetTakes(s, vec[w])

\* C4 amended: after move-construction the source has size 0 and the target
\* has the source's prior size and element values; after move-assignment
\* from another Vector the target has the source's prior size and element
\* values and the source has the target's prior size and element values
\* (size 0 only when the target was empty).
C4_MoveExchanges ==
    /\ \A w \in Alive :
          LET s == MoveOp(vec[w])
          IN  s.other.size_ = 0 /\ TargetTakes(s, vec[w])
    /\ \A v \in Alive, w \in Alive :
          v # w => LET s == MoveAssignOp(vec[v], vec[w], FALSE)
                   IN  /\ TargetTakes(s, vec[w])
                       /\ s.other.size_ = vec[v].size_
                       /\ Values(heap, s.other) = Values(heap, vec[v])

\* a move-assignment left two non-empty Vectors of different sizes
C4_Witness ==
    /\ last.op = "MoveAssign"
    /\ Alive = Vecs
    /\ vec["a"].size_ = 2 /\ vec["b"].size_ = 1

\* the results of every call that changes the one Vector vec[v]
MutationsOf(v) ==
    LET c == Ctx(heap, 0)
    IN  {EmplaceBackOp(vec[v], c, x) : x \in Val}
        \cup {PopBackOp(vec[v], c)}
        \cup {EmplaceOp(vec[v], c, pos, x) : pos \in 0..vec[v].size_, x \in Val}
        \cup {EraseOp(vec[v], c, pos) : pos \in 0..(vec[v].size_ - 1)}
        \cup {ReserveOp(vec[v], c, n) : n \in Sizes}
        \cup {ResizeOp(vec[v], c, n) : n \in Sizes}

\* C5: copy-construction gives a Vector of the source's size and values
\* whose capacity is the source's size, in a block of its own, and leaves
\* the source as it was; two Vectors never hold the same block, and no call
\* that changes one of them changes the other's elements.
C5_CopyIsIndependent ==
    /\ \A w \in Alive :
          LET r == CopyOp(Ctx(heap, 0), vec[w])
          IN  /\ r.me.size_ = vec[w].size_
              /\ Values(r.c.heap, r.me) = Values(heap, vec[w])
              /\ Capacity(r.me) = vec[w].size_
              /\ r.me.data_.buffer_ \notin DOMAIN heap
              /\ \A b \in DOMAIN heap : r.c.heap[b] = heap[b]
    /\ \A v \in Alive, w \in Alive :
          v # w =>
            /\ vec[v].data_.buffer_ = nullptr
               \/ vec[v].data_.buffer_ # vec[w].data_.buffer_
            /\ \A r \in MutationsOf(v) :
                  Values(r.c.heap, vec[w]) = Values(heap, vec[w])

\* a copy was made of a Vector with spare capacity and a non-default value
C5_Witness ==
    /\ last.op = "VectorCopy" /\ ~last.threw
    /\ Alive = Vecs
    /\ \E v \in Vecs, w \in Vecs :
          /\ v # w
          /\ vec[v].size_ = 1 /\ Capacity(vec[v]) = 1 /\ Capacity(vec[w]) = 2
          /\ Values(heap, vec[v]) = <<1>> /\ Values(heap, vec[w]) = <<1>>

\* C6: copy-assignment lhs = rhs between two Vectors gives lhs the size and
\* values of rhs in each of its three branches and leaves rhs unchanged;
\* when rhs.size <= lhs.capacity the capacity and the block of lhs stay.
C6_CopyAssign ==
    \A v \in Alive, w \in Alive :
        v # w =>
          LET r == CopyAssignOp(vec[v], Ctx(heap, 0), vec[w], FALSE)
          IN  /\ r.me.size_ = vec[w].size_
              /\ Values(r.c.heap, r.me) = Values(heap, vec[w])
              /\ Values(r.c.heap, vec[w]) = Values(heap, vec[w])
              /\ vec[w].size_ <= Capacity(vec[v]) => r.me.data_ = vec[v].data_

\* a copy-assignment overwrote an element in place (no new block) and the
\* two Vectors hold the same non-default value
C6_Witness ==
    /\ last.op = "CopyAssign" /\ ~last.realloc
    /\ Alive = Vecs
    /\ Values(heap, vec["a"]) = <<1>> /\ Values(heap, vec["b"]) = <<1>>
    /\ Capacity(vec["a"]) + Capacity(vec["b"]) = 3

\* the invariant of a Vector: 0 <= size <= capacity, the block has capacity
\* slots, and the live slots are exactly [0, size)
VectorInv(h, me) ==
    /\ 0 <= me.size_ /\ me.size_ <= Capacity(me)
    /\ me.data_.buffer_ = nullptr => Capacity(me) = 0
    /\ me.data_.buffer_ # nullptr =>
          /\ me.data_.buffer_ \in DOMAIN h
          /\ DOMAIN h[me.data_.buffer_] = 0..(Capacity(me) - 1)
          /\ \A i \in DOMAIN h[me.data_.buffer_] :
                h[me.data_.buffer_][i].live <=> i < me.size_

\* C8: in every state reached by calls that succeed, each Vector has
\* 0 <= size <= capacity, exactly its slots [0, size) hold live objects and
\* its slots [size, capacity) hold none.
C8_Invariant ==
    /\ ~last.ub
    /\ \A v \in Alive : VectorInv(heap, vec[v])

\* an Emplace shifted elements in place and left spare capacity
C8_Witness ==
    /\ last.op = "Emplace" /\ ~last.realloc
    /\ \E v \in Alive : vec[v].size_ = 2 /\ Capacity(vec[v]) = 3

\* C7: when the construction of the new element throws in EmplaceBack /
\* PushBack, with or without reallocation, the size, capacity, block and
\* elements are as before the call and the new block has been released.
C7_EmplaceBackStrong ==
    \A x \in Val :
        LET r == EmplaceBackOp(vec["a"], Ctx(heap, 1), x)
        IN  /\ r.c.threw
            /\ r.me = vec["a"]
            /\ r.c.heap = heap
            /\ r.c.faults = {}

\* an EmplaceBack that had to reallocate threw from the constructor of the
\* new element (T's moves cannot throw) and two elements are in place
C7_Witness ==
    /\ last.op = "EmplaceBack" /\ last.threw /\ last.realloc
    /\ T = StringLike
    /\ vec["a"].size_ = 2 /\ Capacity(vec["a"]) = 2
    /\ Values(heap, vec["a"]) = <<1, 0>>

\* C9: after a call fails because an element operation throws, the Vector
\* still satisfies its invariant, so that its destructor destroys every
\* live element exactly once.
C9_FailureKeepsInvariant ==
    last.threw =>
        /\ VectorInv(heap, vec["a"])
        /\ DestructorOp(vec["a"], Ctx(heap, 0)).c.faults = {}

\* C10: when EmplaceBack or Emplace reallocates and a copy fails while the
\* elements are transferred (the new element is already in the new block),
\* everything constructed in the new block is destroyed before the block is
\* released, and the Vector's elements, size and capacity are untouched.
C10_TransferUnwinds ==
    VectorInv(heap, vec["a"]) =>
        \A x \in Val, f \in FailPoints \ {0, 1} :
            /\ LET r == EmplaceBackOp(vec["a"], Ctx(heap, f), x)
               IN  r.c.threw /\ r.realloc =>
                      r.c.faults = {} /\ r.me = vec["a"] /\ r.c.heap = heap
            /\ \A pos \in 0..vec["a"].size_ :
                  LET r == EmplaceOp(vec["a"], Ctx(heap, f), pos, x)
                  IN  r.c.threw /\ r.realloc =>
                         r.c.faults = {} /\ r.me = vec["a"] /\ r.c.heap = heap

\* the RawMemory objects that exist
AliveRaw == {m \in DOMAIN mem : mem[m].alive}

\* C11: after move-constructing a RawMemory from a source, or move-assigning
\* a source into a RawMemory, the source is empty (null address, capacity
\* 0) and the target holds the source's prior block and capacity.
C11_RawMoveEmptiesSource ==
    /\ \A w \in AliveRaw :
          LET s == RawMoveOp(mem[w])
          IN  /\ s.other.buffer_ = nullptr /\ s.other.capacity_ = 0
              /\ s.me.buffer_ = mem[w].buffer_
              /\ s.me.capacity_ = mem[w].capacity_
    /\ \A m \in AliveRaw, w \in AliveRaw :
          m # w => LET s == RawMoveAssignOp(mem[m], mem[w])
                   IN  /\ s.other.buffer_ = nullptr /\ s.other.capacity_ = 0
                       /\ s.me.buffer_ = mem[w].buffer_
                       /\ s.me.capacity_ = mem[w].capacity_

\* C19: over any sequence of RawMemory constructions, moves, swaps and
\* destructions no block is released twice, and once every RawMemory
\* object is destroyed every block that was allocated has been released.
C19_EveryBlockReleasedOnce ==
    /\ ~last.ub
    /\ AliveRaw = {} => DOMAIN heap = {}

\* max(1, 2 * n)
DoubleOrOne(n) == IF 2 * n < 1 THEN 1 ELSE 2 * n

\* C12: EmplaceBack / PushBack / Emplace / Insert called with size ==
\* capacity leaves the capacity max(1, 2 * size before); called with
\* size < capacity it leaves the capacity and the block as they were.
C12_GrowthDoubles ==
    \A v \in Alive : \A x \in Val :
        LET me == vec[v]
            c  == Ctx(heap, 0)
            rs == {EmplaceBackOp(me, c, x)}
                  \cup {EmplaceOp(me, c, pos, x) : pos \in 0..me.size_}
        IN  \A r \in rs :
              /\ me.size_ = Capacity(me) =>
                    /\ r.realloc
                    /\ Capacity(r.me) = DoubleOrOne(me.size_)
              /\ me.size_ < Capacity(me) =>
                    /\ ~r.realloc
                    /\ r.me.data_ = me.data_

\* an Emplace on a full vector of one element reallocated: the capacity
\* went from 1 to 2
C12_Witness ==
    /\ last.op = "Emplace" /\ last.realloc
    /\ \E v \in Alive : vec[v].size_ = 2 /\ Capacity(vec[v]) = 2

\* the calls of C13
Resizing ==
    {"EmplaceBack", "PopBack", "Emplace", "Erase", "Reserve", "Resize",
     "CopyAssign"}

\* C13: across PushBack, EmplaceBack, PopBack, Insert, Emplace, Erase,
\* Reserve, Resize and copy-assignment the capacity of a Vector never
\* decreases from one step to the next.
C13_CapacityNeverShrinks ==
    [][last'.op \in Resizing =>
          \A v \in Vecs :
              vec[v].alive /\ vec'[v].alive =>
                  Capacity(vec'[v]) >= Capacity(vec[v])]_vars

\* a Resize took elements away from a Vector that keeps three slots
C13_Witness ==
    /\ last.op = "Resize" /\ ~last.realloc
    /\ \E v \in Alive : vec[v].size_ = 1 /\ Capacity(vec[v]) = 3

\* C14: Reserve(n) with n <= capacity changes nothing; with n > capacity
\* it makes the capacity exactly n and leaves the size and every element
\* value as they were.
C14_ReserveFrame ==
    \A v \in Alive : \A n \in 0..(MaxCap + 1) :
        LET me == vec[v]
            r  == ReserveOp(me, Ctx(heap, 0), n)
        IN  /\ n <= Capacity(me) => r.me = me /\ r.c.heap = heap
            /\ n > Capacity(me) =>
                  /\ Capacity(r.me) = n
                  /\ r.me.size_ = me.size_
                  /\ Values(r.c.heap, r.me) = Values(heap, me)
                  /\ VectorInv(r.c.heap, r.me)

\* a Reserve moved two elements of different values to a block of three
C14_Witness ==
    /\ last.op = "Reserve" /\ last.realloc
    /\ \E v \in Alive : /\ Capacity(vec[v]) = 3
                        /\ Values(heap, vec[v]) = <<0, 1>>

\* the larger of two numbers
Max(m, n) == IF m < n THEN n ELSE m

\* C15: after Resize(n) the size is n, the values at the indices below
\* min(old size, n) are as before, the slots from the old size to n hold
\* value-initialised objects, and the capacity is max(old capacity, n).
C15_Resize ==
    \A v \in Alive : \A n \in 0..(MaxCap + 1) :
        LET me  == vec[v]
            r   == ResizeOp(me, Ctx(heap, 0), n)
            old == Values(heap, me)
            new == Values(r.c.heap, r.me)
        IN  /\ r.me.size_ = n
            /\ \A i \in 1..n : new[i] = IF i <= me.size_ THEN old[i] ELSE 0
            /\ \A i \in 0..(n - 1) : IsLive(r.c, r.me.data_.buffer_, i)
            /\ Capacity(r.me) = Max(Capacity(me), n)

\* a Resize grew a Vector of one element past its capacity
C15_Witness ==
    /\ last.op = "Resize" /\ last.realloc
    /\ \E v \in Alive : /\ Capacity(vec[v]) = 3
                        /\ Values(heap, vec[v]) = <<1, 0, 0>>

\* C16: the elements are moved to a new block when T's move constructor
\* cannot throw (or T cannot be copied), else copied.  For a T that is
\* copied, when copy number f fails during Reserve, or during the Reserve
\* step of a growing Resize, the Vector's size, capacity, block and element
\* values are as before, and everything constructed in the new block was
\* destroyed before the block was released.
C16_TransferStrategy ==
    \A n \in 0..(MaxCap + 1), f \in FailPoints \ {0} :
        LET me == vec["a"]
            r  == ReserveOp(me, Ctx(heap, f), n)
            z  == ResizeOp(me, Ctx(heap, f), n)
            copying == n > Capacity(me) /\ f <= me.size_
        IN  /\ T.nothrowMove => ~r.c.threw
            /\ ~T.nothrowMove /\ copying => r.c.threw /\ z.c.threw
            /\ r.c.threw =>
                  r.me = me /\ r.c.heap = heap /\ r.c.faults = {}
            /\ ~T.nothrowMove /\ copying =>
                  z.me = me /\ z.c.heap = heap /\ z.c.faults = {}

\* the second copy failed while Reserve transferred two non-empty elements
\* of a T whose move may throw and empties its source
C16_Witness ==
    /\ last.op = "Reserve" /\ last.threw /\ last.realloc
    /\ T = ThrowingMove
    /\ Capacity(vec["a"]) = 2
    /\ Values(heap, vec["a"]) = <<1, 1>>

\* C17: in Emplace / Insert without reallocation (size < capacity), for
\* every size and every pos in [0, size], every construction is made in a
\* slot holding no object and every destruction and move-assignment
\* reaches a slot holding one; afterwards exactly the slots [0, size + 1)
\* hold objects.
C17_EmplaceSlotLifetimes ==
    \A v \in Alive :
        vec[v].size_ < Capacity(vec[v]) =>
            \A pos \in 0..vec[v].size_, x \in Val :
                LET r == EmplaceOp(vec[v], Ctx(heap, 0), pos, x)
                IN  /\ ~r.realloc
                    /\ r.c.faults = {}
                    /\ VectorInv(r.c.heap, r.me)
                    /\ r.me.size_ = vec[v].size_ + 1

\* an Emplace without reallocation filled a Vector of three slots
C17_Witness ==
    /\ last.op = "Emplace" /\ ~last.realloc
    /\ \E v \in Alive : vec[v].size_ = 3 /\ Capacity(vec[v]) = 3

\* C18: when the construction of element k fails in Vector(n), or the copy
\* of element k fails in the copy constructor, the elements [0, k) built in
\* the new block are destroyed and the block is released, no Vector comes
\* to exist, and the source of the copy is as it was.
C18_ConstructorsUnwind ==
    /\ \A n \in 1..MaxCap, f \in FailPoints \ {0} :
          f <= n =>
            LET r == SizedOp(Ctx(heap, f), n)
            IN  /\ r.c.threw /\ ~r.me.alive
                /\ r.c.heap = heap /\ r.c.faults = {}
    /\ \A w \in Alive, f \in FailPoints \ {0} :
          f <= vec[w].size_ =>
            LET r == CopyOp(Ctx(heap, f), vec[w])
            IN  /\ r.c.threw /\ ~r.me.alive
                /\ r.c.heap = heap /\ r.c.faults = {}

\* a copy of a Vector of two elements threw and left only the source
C18_Witness ==
    /\ last.op = "VectorCopy" /\ last.threw
    /\ vec["a"].alive /\ ~vec["b"].alive
    /\ Values(heap, vec["a"]) = <<0, 1>>
    /\ DOMAIN heap = {1}

\* C20: while the callers keep the preconditions of Vector (index < size
\* for operator[], pos in [begin, end] for Emplace / Insert), every offset
\* Vector passes to RawMemory::operator+ is at most the capacity of that
\* block and every index it passes to RawMemory::operator[] is below it.
C20_RawMemoryAssertsHold ==
    \A v \in Alive :
        /\ EmplaceBackAsserts(vec[v])
        /\ \A shift \in 0..vec[v].size_ : EmplaceAsserts(vec[v], shift)
        /\ \A index \in 0..(vec[v].size_ - 1) : SubscriptAsserts(vec[v], index)

\* an EmplaceBack without reallocation took the last slot of three: it
\* passed the offset 2 to operator+ of a block of capacity 3
C20_Witness ==
    /\ last.op = "EmplaceBack" /\ ~last.realloc
    /\ \E v \in Alive : vec[v].size_ = 3 /\ Capacity(vec[v]) = 3

====
